---- MODULE Spec2Model ----
(***************************************************************************)
(* Model of the tool-call decoders of codex-cli (utils/parsers.ts) and of  *)
(* the debug logger they report to (utils/debug-logger.ts).                *)
(*                                                                         *)
(* Text is a sequence of characters; a character is a one-character        *)
(* string ("{", "a", "\n").  Characters TLA+ cannot write as a literal are *)
(* named by a token ("<U+0001>").  The fixed messages the code appends or  *)
(* returns are kept as one element of the sequence each.                   *)
(***************************************************************************)
EXTENDS Integers, Sequences, FiniteSets, TLC

VARIABLES
    debug,      \* process.env["DEBUG"] is set
    calls,      \* number of entry-point calls made so far
    op,         \* the entry point called last: "none", "output", "arguments",
                \* "parse-attempt", "command", "analyze"
    raw,        \* the text handed to that call
    ret,        \* what that call did: [outcome, value, stages]
    pending,    \* log writes issued (void promise) and not yet run
    store,      \* the log directories: target name -> content
    console,    \* lines written with log(), oldest first
    now,        \* the clock, in timestamp ticks
    failures,   \* number of writes the file system refused so far
    unhandled,  \* an exception or rejection escaped every catch
    exited,     \* the process has exited
    fetched,    \* the promises fetchModels has returned, oldest first
    modelsPromise,  \* the cached promise: its index in fetched, 0 for null
    callers     \* the calls made into model-utils, oldest first

modelVars == <<fetched, modelsPromise, callers>>
logVars == <<debug, calls, op, raw, ret, pending, store, now, failures, unhandled, exited>>
vars == <<debug, calls, op, raw, ret, pending, store, console, now, failures, unhandled,
          exited, fetched, modelsPromise, callers>>

-----------------------------------------------------------------------------
(* Bounds of the model.                                                    *)

MaxLen == 3         \* every text over Sigma up to this length is an input
MaxTime == 1        \* clock ticks per behaviour
MaxCalls == 2       \* recorder calls per behaviour
MaxModelCalls == 3  \* calls into model-utils per behaviour
MaxList == 2        \* entries of the list the models endpoint answers

-----------------------------------------------------------------------------
(* Characters.                                                             *)

LBrace == "{"
RBrace == "}"
DQuote == "\""
Backslash == "\\"
Ctl01 == "<U+0001>"

Digits == {"0", "1", "2", "3", "4", "5", "6", "7", "8", "9"}
DigitVal == [c \in Digits |-> CHOOSE n \in 0..9 :
                <<"0", "1", "2", "3", "4", "5", "6", "7", "8", "9">>[n + 1] = c]
DigitChar(n) == <<"0", "1", "2", "3", "4", "5", "6", "7", "8", "9">>[n + 1]
HexDigits == Digits \cup {"a", "b", "c", "d", "e", "f", "A", "B", "C", "D", "E", "F"}
HexUpper(c) ==
    CASE c = "a" -> "A" [] c = "b" -> "B" [] c = "c" -> "C"
      [] c = "d" -> "D" [] c = "e" -> "E" [] c = "f" -> "F" [] OTHER -> c

\* JSON whitespace, and the characters a JSON string may not hold unescaped.
JsonWs == {" ", "\t", "\n", "\r"}
C0Controls == {"\t", "\n", "\r", "\f", Ctl01}

\* The character a \uXXXX escape stands for.
CodeUnit(h) ==
    LET name == "<U+" \o HexUpper(h[1]) \o HexUpper(h[2]) \o HexUpper(h[3])
                      \o HexUpper(h[4]) \o ">"
    IN  CASE name = "<U+0009>" -> "\t" [] name = "<U+000A>" -> "\n"
          [] name = "<U+000C>" -> "\f" [] name = "<U+000D>" -> "\r"
          [] name = "<U+0022>" -> DQuote [] name = "<U+005C>" -> Backslash
          [] name = "<U+007B>" -> LBrace [] name = "<U+007D>" -> RBrace
          [] name = "<U+0061>" -> "a"
          [] OTHER -> name

-----------------------------------------------------------------------------
(* JavaScript values.  Every value is a record of the same shape; t is the *)
(* kind.  A number is sign, decimal mantissa and decimal exponent,         *)
(* normalised (no trailing zero in the mantissa; zero has exponent 0).     *)
(* kids holds an array's elements, or an object's [k, v] members in        *)
(* insertion order.                                                        *)

Num(neg, m, e) == [neg |-> neg, m |-> m, e |-> e]
NumZero == Num(FALSE, 0, 0)

JsVal(t, b, n, s, kids) == [t |-> t, b |-> b, n |-> n, s |-> s, kids |-> kids]
Undefined == JsVal("undefined", FALSE, NumZero, <<>>, <<>>)
JsNull == JsVal("null", FALSE, NumZero, <<>>, <<>>)
JsBool(b) == JsVal("bool", b, NumZero, <<>>, <<>>)
JsNum(n) == JsVal("num", FALSE, n, <<>>, <<>>)
JsStr(s) == JsVal("str", FALSE, NumZero, s, <<>>)
JsArr(kids) == JsVal("arr", FALSE, NumZero, <<>>, kids)
JsObj(kids) == JsVal("obj", FALSE, NumZero, <<>>, kids)

RECURSIVE Normalize(_, _, _)
Normalize(neg, m, e) ==
    IF m = 0 THEN Num(neg, 0, 0)
    ELSE IF m % 10 = 0 THEN Normalize(neg, m \div 10, e + 1)
    ELSE Num(neg, m, e)

\* obj[k], or undefined when obj has no own property k.
RECURSIVE GetProp(_, _)
GetProp(kids, k) ==
    IF kids = <<>> THEN Undefined
    ELSE IF kids[1].k = k THEN kids[1].v
    ELSE GetProp(Tail(kids), k)

HasProp(kids, k) == \E i \in 1..Len(kids) : kids[i].k = k

\* Defining k: a repeated key keeps its first position and takes the last value.
SetProp(kids, k, v) ==
    IF HasProp(kids, k)
    THEN [i \in 1..Len(kids) |-> IF kids[i].k = k THEN [k |-> k, v |-> v] ELSE kids[i]]
    ELSE Append(kids, [k |-> k, v |-> v])

-----------------------------------------------------------------------------
(* JSON.parse, as a recursive-descent parser over the characters.          *)
(* A parse step answers [ok, v, i]: i is the index after what it read.     *)

Fail == [ok |-> FALSE, v |-> Undefined, i |-> 0]
Ok(v, i) == [ok |-> TRUE, v |-> v, i |-> i]

RECURSIVE SkipWs(_, _)
SkipWs(s, i) ==
    IF i <= Len(s) /\ s[i] \in JsonWs THEN SkipWs(s, i + 1) ELSE i

\* The index after the run of digits that starts at i.
RECURSIVE DigitsEnd(_, _)
DigitsEnd(s, i) ==
    IF i <= Len(s) /\ s[i] \in Digits THEN DigitsEnd(s, i + 1) ELSE i

\* The value of the digits s[i..j-1], continuing from acc.
RECURSIVE DigitsVal(_, _, _, _)
DigitsVal(s, i, j, acc) ==
    IF i >= j THEN acc ELSE DigitsVal(s, i + 1, j, acc * 10 + DigitVal[s[i]])

IsAt(s, i, c) == i <= Len(s) /\ s[i] = c

ParseNumber(s, i) ==
    LET neg == IsAt(s, i, "-")
        a == IF neg THEN i + 1 ELSE i
        intEnd == IF IsAt(s, a, "0") THEN a + 1 ELSE DigitsEnd(s, a)
        hasFrac == IsAt(s, intEnd, ".")
        fracEnd == IF hasFrac THEN DigitsEnd(s, intEnd + 1) ELSE intEnd
        fracLen == IF hasFrac THEN fracEnd - (intEnd + 1) ELSE 0
        hasExp == IsAt(s, fracEnd, "e") \/ IsAt(s, fracEnd, "E")
        expNeg == hasExp /\ IsAt(s, fracEnd + 1, "-")
        expFrom == IF hasExp /\ (IsAt(s, fracEnd + 1, "-") \/ IsAt(s, fracEnd + 1, "+"))
                   THEN fracEnd + 2 ELSE fracEnd + 1
        expEnd == IF hasExp THEN DigitsEnd(s, expFrom) ELSE fracEnd
        expAbs == IF hasExp THEN DigitsVal(s, expFrom, expEnd, 0) ELSE 0
        mant == DigitsVal(s, intEnd + 1, fracEnd, DigitsVal(s, a, intEnd, 0))
    IN  IF intEnd = a \/ (hasFrac /\ fracLen = 0) \/ (hasExp /\ expEnd = expFrom)
        THEN Fail
        ELSE Ok(JsNum(Normalize(neg, mant, (IF expNeg THEN -expAbs ELSE expAbs) - fracLen)),
                expEnd)

\* i is the index after the opening quote; acc the characters read so far.
RECURSIVE ParseString(_, _, _)
ParseString(s, i, acc) ==
    IF i > Len(s) THEN Fail
    ELSE IF s[i] = DQuote THEN Ok(JsStr(acc), i + 1)
    ELSE IF s[i] \in C0Controls THEN Fail
    ELSE IF s[i] # Backslash THEN ParseString(s, i + 1, Append(acc, s[i]))
    ELSE IF i + 1 > Len(s) THEN Fail
    ELSE LET e == s[i + 1] IN
         CASE e = DQuote -> ParseString(s, i + 2, Append(acc, DQuote))
           [] e = Backslash -> ParseString(s, i + 2, Append(acc, Backslash))
           [] e = "/" -> ParseString(s, i + 2, Append(acc, "/"))
           [] e = "n" -> ParseString(s, i + 2, Append(acc, "\n"))
           [] e = "t" -> ParseString(s, i + 2, Append(acc, "\t"))
           [] e = "r" -> ParseString(s, i + 2, Append(acc, "\r"))
           [] e = "f" -> ParseString(s, i + 2, Append(acc, "\f"))
           [] e = "b" -> ParseString(s, i + 2, Append(acc, "<U+0008>"))
           [] e = "u" ->
                IF i + 5 <= Len(s) /\ \A d \in 2..5 : s[i + d] \in HexDigits
                THEN ParseString(s, i + 6, Append(acc, CodeUnit(SubSeq(s, i + 2, i + 5))))
                ELSE Fail
           [] OTHER -> Fail

StartsWith(s, i, w) ==
    i + Len(w) - 1 <= Len(s) /\ SubSeq(s, i, i + Len(w) - 1) = w

RECURSIVE ParseValue(_, _), ParseMembers(_, _, _), ParseElements(_, _, _)

\* i is at the first character of the value (whitespace already skipped).
ParseValue(s, i) ==
    IF i > Len(s) THEN Fail
    ELSE CASE s[i] = LBrace ->
                LET j == SkipWs(s, i + 1)
                IN  IF IsAt(s, j, RBrace) THEN Ok(JsObj(<<>>), j + 1)
                    ELSE ParseMembers(s, j, <<>>)
           [] s[i] = "[" ->
                LET j == SkipWs(s, i + 1)
                IN  IF IsAt(s, j, "]") THEN Ok(JsArr(<<>>), j + 1)
                    ELSE ParseElements(s, j, <<>>)
           [] s[i] = DQuote -> ParseString(s, i + 1, <<>>)
           [] s[i] = "-" \/ s[i] \in Digits -> ParseNumber(s, i)
           [] StartsWith(s, i, <<"t", "r", "u", "e">>) -> Ok(JsBool(TRUE), i + 4)
           [] StartsWith(s, i, <<"f", "a", "l", "s", "e">>) -> Ok(JsBool(FALSE), i + 5)
           [] StartsWith(s, i, <<"n", "u", "l", "l">>) -> Ok(JsNull, i + 4)
           [] OTHER -> Fail

\* i is at the opening quote of the next member's key.
ParseMembers(s, i, acc) ==
    IF ~IsAt(s, i, DQuote) THEN Fail
    ELSE LET key == ParseString(s, i + 1, <<>>)
             colon == SkipWs(s, key.i)
             val == ParseValue(s, SkipWs(s, colon + 1))
             after == SkipWs(s, val.i)
             kids == SetProp(acc, key.v.s, val.v)
         IN  IF ~key.ok \/ ~IsAt(s, colon, ":") THEN Fail
             ELSE IF ~val.ok THEN Fail
             ELSE IF IsAt(s, after, RBrace) THEN Ok(JsObj(kids), after + 1)
             ELSE IF IsAt(s, after, ",") THEN ParseMembers(s, SkipWs(s, after + 1), kids)
             ELSE Fail

\* i is at the first character of the next element.
ParseElements(s, i, acc) ==
    LET val == ParseValue(s, i)
        after == SkipWs(s, val.i)
        kids == Append(acc, val.v)
    IN  IF ~val.ok THEN Fail
        ELSE IF IsAt(s, after, "]") THEN Ok(JsArr(kids), after + 1)
        ELSE IF IsAt(s, after, ",") THEN ParseElements(s, SkipWs(s, after + 1), kids)
        ELSE Fail

\* r is the value read at the start of s: only whitespace may follow it.
WholeText(s, r) ==
    IF r.ok /\ SkipWs(s, r.i) = Len(s) + 1
    THEN [throws |-> FALSE, v |-> r.v]
    ELSE [throws |-> TRUE, v |-> Undefined]

\* JSON.parse(s): the value, or a SyntaxError.
JsonParse(s) == WholeText(s, ParseValue(s, SkipWs(s, 1)))

-----------------------------------------------------------------------------
(* JSON.stringify and string conversion.                                   *)

RECURSIVE DigitsOf(_)
DigitsOf(m) ==
    IF m < 10 THEN <<DigitChar(m)>> ELSE Append(DigitsOf(m \div 10), DigitChar(m % 10))

Zeros(k) == [i \in 1..k |-> "0"]

\* Number::toString for the magnitudes of the model (below 1e21, at least 1e-6).
NumToString(n) ==
    LET d == DigitsOf(n.m)
        k == Len(d)
        body == IF n.e >= 0 THEN d \o Zeros(n.e)
                ELSE IF k > -n.e THEN SubSeq(d, 1, k + n.e) \o <<".">> \o SubSeq(d, k + n.e + 1, k)
                ELSE <<"0", ".">> \o Zeros(-n.e - k) \o d
    IN  IF n.m = 0 THEN <<"0">>
        ELSE IF n.neg THEN <<"-">> \o body ELSE body

\* QuoteJSONString: the text between double quotes, escaped.
RECURSIVE EscapeChars(_)
EscapeChars(s) ==
    IF s = <<>> THEN <<>>
    ELSE LET c == Head(s)
             e == CASE c = DQuote -> <<Backslash, DQuote>>
                    [] c = Backslash -> <<Backslash, Backslash>>
                    [] c = "\n" -> <<Backslash, "n">>
                    [] c = "\t" -> <<Backslash, "t">>
                    [] c = "\r" -> <<Backslash, "r">>
                    [] c = "\f" -> <<Backslash, "f">>
                    [] c = Ctl01 -> <<Backslash, "u", "0", "0", "0", "1">>
                    [] OTHER -> <<c>>
         IN  e \o EscapeChars(Tail(s))

QuoteJson(s) == <<DQuote>> \o EscapeChars(s) \o <<DQuote>>

RECURSIVE JsonStringify(_), StringifyMembers(_, _), StringifyElements(_)

\* JSON.stringify(v) for a defined v.  An undefined member is left out, an
\* undefined element is written null.
JsonStringify(v) ==
    CASE v.t = "str" -> QuoteJson(v.s)
      [] v.t = "num" -> NumToString(v.n)
      [] v.t = "bool" -> IF v.b THEN <<"t", "r", "u", "e">> ELSE <<"f", "a", "l", "s", "e">>
      [] v.t = "arr" -> <<"[">> \o StringifyElements(v.kids) \o <<"]">>
      [] v.t = "obj" -> <<LBrace>> \o StringifyMembers(v.kids, TRUE) \o <<RBrace>>
      [] OTHER -> <<"n", "u", "l", "l">>

StringifyMembers(kids, first) ==
    IF kids = <<>> THEN <<>>
    ELSE IF kids[1].v.t = "undefined" THEN StringifyMembers(Tail(kids), first)
    ELSE (IF first THEN <<>> ELSE <<",">>)
         \o QuoteJson(kids[1].k) \o <<":">> \o JsonStringify(kids[1].v)
         \o StringifyMembers(Tail(kids), FALSE)

StringifyElements(kids) ==
    IF kids = <<>> THEN <<>>
    ELSE JsonStringify(kids[1])
         \o (IF Len(kids) > 1 THEN <<",">> ELSE <<>>)
         \o StringifyElements(Tail(kids))

Key_toString == <<"t", "o", "S", "t", "r", "i", "n", "g">>

\* ToString(v), as the + operator applies it to its left operand: the text, or
\* a TypeError when an object's own toString member hides the inherited one.
RECURSIVE JsToString(_), JoinElements(_)
JsToString(v) ==
    CASE v.t = "str" -> [throws |-> FALSE, s |-> v.s]
      [] v.t = "num" -> [throws |-> FALSE, s |-> NumToString(v.n)]
      [] v.t = "bool" -> [throws |-> FALSE, s |-> IF v.b THEN <<"true">> ELSE <<"false">>]
      [] v.t = "null" -> [throws |-> FALSE, s |-> <<"null">>]
      [] v.t = "undefined" -> [throws |-> FALSE, s |-> <<"undefined">>]
      [] v.t = "arr" -> JoinElements(v.kids)
      [] OTHER -> IF HasProp(v.kids, Key_toString)
                  THEN [throws |-> TRUE, s |-> <<>>]
                  ELSE [throws |-> FALSE, s |-> <<"[object Object]">>]

JoinElements(kids) ==
    IF kids = <<>> THEN [throws |-> FALSE, s |-> <<>>]
    ELSE LET h == IF kids[1].t \in {"null", "undefined"}
                  THEN [throws |-> FALSE, s |-> <<>>]
                  ELSE JsToString(kids[1])
             r == JoinElements(Tail(kids))
         IN  [throws |-> h.throws \/ r.throws,
              s |-> h.s \o (IF Len(kids) > 1 THEN <<",">> ELSE <<>>) \o r.s]

-----------------------------------------------------------------------------
(* Effects of a piece of code: the console lines it logs and the log       *)
(* writes it issues; throws says whether it ended by raising.              *)

NoFx == [throws |-> FALSE, console |-> <<>>, writes |-> <<>>]
Lines(ls) == [throws |-> FALSE, console |-> ls, writes |-> <<>>]
Then(f, g) == [throws |-> g.throws, console |-> f.console \o g.console,
               writes |-> f.writes \o g.writes]

Count(s, c) == Cardinality({i \in 1..Len(s) : s[i] = c})

\* The head/tail excerpt the records keep of a long text.
Sample(s) ==
    IF Len(s) > 1000
    THEN [start |-> SubSeq(s, 1, 500), end |-> SubSeq(s, Len(s) - 499, Len(s))]
    ELSE [start |-> s, end |-> <<>>]

\* A write handed to DebugLogger.writeToLogFile / writeRawContent or writeErrorLog.
Write(dir, prefix, ext, body) == [dir |-> dir, prefix |-> prefix, ext |-> ext, body |-> body]

\* DebugLogger.logJsonParseAttempt(jsonString, success, error); error is given
\* exactly on the calls with success = false.
logJsonParseAttempt(jsonString, success, dbg) ==
    IF ~dbg THEN NoFx
    ELSE LET logData == [kind |-> "parse-attempt",
                         success |-> success,
                         jsonLength |-> Len(jsonString),
                         error |-> ~success,
                         jsonSample |-> Sample(jsonString),
                         openBraces |-> Count(jsonString, LBrace),
                         closeBraces |-> Count(jsonString, RBrace),
                         openBrackets |-> Count(jsonString, "["),
                         closeBrackets |-> Count(jsonString, "]"),
                         quotes |-> Count(jsonString, DQuote)]
         IN  [throws |-> FALSE,
              console |-> <<IF success THEN "[DEBUG] JSON parse succeeded"
                                       ELSE "[DEBUG] JSON parse failed",
                            "[DEBUG] JSON length">>
                          \o (IF ~success THEN <<"[DEBUG] Parse error">> ELSE <<>>)
                          \o <<"[DEBUG] Structure analysis">>,
              writes |-> <<Write("debug-logs",
                                 IF success THEN "json-parse-success" ELSE "json-parse-error",
                                 "json", logData)>>
                         \o (IF ~success
                             THEN <<Write("debug-logs", "failed-json-raw", "txt",
                                          [kind |-> "raw", content |-> jsonString])>>
                             ELSE <<>>)]

-----------------------------------------------------------------------------
(* parseToolCallOutput.                                                    *)

Key_output == <<"o", "u", "t", "p", "u", "t">>
Key_metadata == <<"m", "e", "t", "a", "d", "a", "t", "a">>
Key_exit_code == <<"e", "x", "i", "t", "_", "c", "o", "d", "e">>
Key_duration_seconds ==
    <<"d", "u", "r", "a", "t", "i", "o", "n", "_", "s", "e", "c", "o", "n", "d", "s">>

NotePatched == "\n[Note: Response was truncated and automatically fixed]"
NoteExtracted == "\n[Note: Response was truncated but a valid portion was recovered]"
MsgTruncated == "Response appears to be truncated due to token limits. Try a smaller command output or check logs for details."
MsgGeneric == "Failed to parse JSON result. Check logs for details."

\* s.lastIndexOf(c) and s.indexOf(c), counting from 1; 0 is JavaScript's -1.
LastIndexOf(s, c) ==
    IF \E i \in 1..Len(s) : s[i] = c
    THEN CHOOSE i \in 1..Len(s) : s[i] = c /\ \A j \in (i + 1)..Len(s) : s[j] # c
    ELSE 0
IndexOf(s, c) ==
    IF \E i \in 1..Len(s) : s[i] = c
    THEN CHOOSE i \in 1..Len(s) : s[i] = c /\ \A j \in 1..(i - 1) : s[j] # c
    ELSE 0
lastOpenBrace(s) == LastIndexOf(s, LBrace)
lastCloseBrace(s) == LastIndexOf(s, RBrace)

\* A value of a property of v that v does not have is undefined; only an object
\* parsed from JSON has named properties.
PropOf(v, k) == IF v.t = "obj" THEN GetProp(v.kids, k) ELSE Undefined

\* const { output, metadata } = v: a TypeError when v is null or undefined.
Destructure(v) ==
    [throws |-> v.t \in {"null", "undefined"},
     output |-> PropOf(v, Key_output),
     metadata |-> PropOf(v, Key_metadata)]

\* What a block of parseToolCallOutput did: it returned value, or it raised;
\* stages lists the stages it entered, in order, each with the text it examined
\* and whether it returned from there; fx is what it logged and wrote.
Returned(value, stages, fx) ==
    [outcome |-> "return", value |-> value, stages |-> stages, fx |-> fx]
Raised(stages, fx) ==
    [outcome |-> "throw", value |-> [output |-> Undefined, metadata |-> Undefined],
     stages |-> stages, fx |-> fx]
Stage(name, candidate, success) == [stage |-> name, candidate |-> candidate, success |-> success]

\* The inner loop of the scan: does depth, counted from j on, return to zero?
RECURSIVE DepthReturnsToZero(_, _, _)
DepthReturnsToZero(s, j, openCount) ==
    IF j > Len(s) THEN FALSE
    ELSE LET c == IF s[j] = LBrace THEN openCount + 1
                  ELSE IF s[j] = RBrace THEN openCount - 1
                  ELSE openCount
         IN  IF c = 0 THEN TRUE ELSE DepthReturnsToZero(s, j + 1, c)

\* The outer loop leaving at the first matched open brace.
RECURSIVE ScanStart_FirstMatch(_, _, _, _)
ScanStart_FirstMatch(s, i, lastOpen, start) ==
    IF i > lastOpen THEN start
    ELSE IF s[i] = LBrace /\ DepthReturnsToZero(s, i + 1, 1)
         THEN i
         ELSE ScanStart_FirstMatch(s, i + 1, lastOpen, start)

\* The outer loop: for i up to lastOpen, every matched open brace overwrites start.
RECURSIVE ScanStart(_, _, _, _)
ScanStart(s, i, lastOpen, start) ==
    IF i > lastOpen THEN start
    ELSE IF s[i] = LBrace /\ DepthReturnsToZero(s, i + 1, 1)
         THEN ScanStart(s, i + 1, lastOpen, i)
         ELSE ScanStart(s, i + 1, lastOpen, start)

possibleJson(s) ==
    SubSeq(s, ScanStart(s, 1, lastOpenBrace(s), 1), lastCloseBrace(s))

fixedJson(s) == Append(s, RBrace)

\* The patch guard without the comparison of the two indexes.
PatchTriggered_NoOrderCheck(s) == lastOpenBrace(s) # 0

PatchTriggered(s) ==
    lastOpenBrace(s) # 0 /\ (lastCloseBrace(s) = 0 \/ lastCloseBrace(s) < lastOpenBrace(s))
ExtractTriggered(s) ==
    lastOpenBrace(s) # 0 /\ lastCloseBrace(s) # 0 /\ lastCloseBrace(s) > lastOpenBrace(s)

\* typeof v === 'object' && v !== null, and the in operator on such a value.
IsObjectValue(v) == v.t \in {"obj", "arr"}
In(k, v) == v.t = "obj" /\ HasProp(v.kids, k)

\* The values the stages return: lines 55, 78-81, 121-124.
\* DirectValue, with a note appended as the recovery stages append one.
DirectValue_Annotated(d) ==
    [output |-> JsStr(Append(d.output.s, "\n[Note: Response was truncated and automatically fixed]")),
     metadata |-> d.metadata]
DirectValue(d) == [output |-> d.output, metadata |-> d.metadata]
PatchedValue(text, metadata) ==
    [output |-> JsStr(Append(text, NotePatched)), metadata |-> metadata]
ExtractedValue(text, metadata) ==
    [output |-> JsStr(Append(text, NoteExtracted)), metadata |-> metadata]

\* Lines 72-86 once fixedJson (cand) went through JSON.parse and the
\* destructuring: parsed says both succeeded, d is what was destructured, text
\* the output as a string, okLog and failLog the records of lines 77 and 84.
\* done says the stage returned value.
PatchResult(cand, parsed, d, text, okLog, failLog) ==
    LET pre == Lines(<<"Detected potentially truncated JSON without closing brace">>)
        inTry == Then(Lines(<<"Successfully recovered JSON by adding closing brace">>), okLog)
        inCatch == Then(Lines(<<"Recovery attempt by adding closing brace failed">>), failLog)
    IN  IF parsed /\ ~okLog.throws /\ ~text.throws
        THEN [done |-> TRUE,
              value |-> PatchedValue(text.s, d.metadata),
              stage |-> Stage("patch", cand, TRUE),
              fx |-> Then(pre, inTry)]
        ELSE [done |-> FALSE,
              value |-> [output |-> Undefined, metadata |-> Undefined],
              stage |-> Stage("patch", cand, FALSE),
              fx |-> Then(Then(pre, IF parsed THEN inTry ELSE NoFx), inCatch)]

\* Lines 73-85: p is JSON.parse(fixedJson).
PatchParsed(cand, dbg, p) ==
    PatchResult(cand, ~p.throws /\ ~Destructure(p.v).throws, Destructure(p.v),
                JsToString(Destructure(p.v).output),
                logJsonParseAttempt(cand, TRUE, dbg), logJsonParseAttempt(cand, FALSE, dbg))

\* Lines 69-86: the close-brace patch.
PatchStage(s, dbg) == PatchParsed(fixedJson(s), dbg, JsonParse(fixedJson(s)))

\* Lines 113-129 once possibleJson (cand) went through JSON.parse: p is its
\* outcome, shape the test of lines 118-119, text the output as a string,
\* okLog and failLog the records of lines 115 and 128.
ExtractResult(cand, p, shape, text, okLog, failLog) ==
    LET pre == Lines(<<"Attempting to extract complete JSON object from truncated response">>)
        inCatch == Then(Lines(<<"Failed to extract valid JSON object">>), failLog)
        caught == p.throws \/ okLog.throws \/ (shape /\ text.throws)
    IN  IF ~caught /\ shape
        THEN [done |-> TRUE,
              value |-> ExtractedValue(text.s, PropOf(p.v, Key_metadata)),
              stage |-> Stage("extract", cand, TRUE),
              fx |-> Then(Then(pre, okLog),
                          Lines(<<"Successfully extracted valid JSON object from truncated response">>))]
        ELSE [done |-> FALSE,
              value |-> [output |-> Undefined, metadata |-> Undefined],
              stage |-> Stage("extract", cand, FALSE),
              fx |-> IF caught
                     THEN Then(Then(pre, IF p.throws THEN NoFx ELSE okLog), inCatch)
                     ELSE Then(pre, okLog)]

\* Lines 111-129: p is JSON.parse(possibleJson).
ExtractParsed(cand, dbg, p) ==
    ExtractResult(cand, p,
                  IsObjectValue(p.v) /\ In(Key_output, p.v) /\ In(Key_metadata, p.v),
                  JsToString(PropOf(p.v, Key_output)),
                  logJsonParseAttempt(cand, TRUE, dbg), logJsonParseAttempt(cand, FALSE, dbg))

\* Lines 89-130: the embedded-object extraction.
ExtractStage(s, dbg) == ExtractParsed(possibleJson(s), dbg, JsonParse(possibleJson(s)))

\* Lines 89-131 and the rethrow of line 134: ex is what the extraction did,
\* stages3 and fx3 the stages entered and the effects before it.
ExtractOutcome(stages3, fx3, ex) ==
    IF ex.done
    THEN Returned(ex.value, Append(stages3, ex.stage), Then(fx3, ex.fx))
    ELSE Raised(Append(stages3, ex.stage), Then(fx3, ex.fx))

TryExtract(s, dbg, stages3, fx3) ==
    IF ExtractTriggered(s)
    THEN ExtractOutcome(stages3, fx3, ExtractStage(s, dbg))
    ELSE Raised(stages3, fx3)

\* Lines 69-134 when the patch is tried: patch is what it did.
PatchOutcome(s, dbg, stages0, fx2, patch) ==
    IF patch.done
    THEN Returned(patch.value, Append(stages0, patch.stage), Then(fx2, patch.fx))
    ELSE IF patch.fx.throws
         THEN Raised(Append(stages0, patch.stage), Then(fx2, patch.fx))
         ELSE TryExtract(s, dbg, Append(stages0, patch.stage), Then(fx2, patch.fx))

\* Lines 60-134: fx1 is everything logged up to the record of line 58.
Recover(s, dbg, stages0, fx1) ==
    IF fx1.throws \/ Len(s) = 0 THEN Raised(stages0, fx1)
    ELSE IF PatchTriggered(s)
         THEN PatchOutcome(s, dbg, stages0,
                           Then(fx1, Lines(<<"Standard JSON parsing failed, attempting recovery...">>)),
                           PatchStage(s, dbg))
         ELSE TryExtract(s, dbg, stages0,
                         Then(fx1, Lines(<<"Standard JSON parsing failed, attempting recovery...">>)))

\* Lines 56-135: the handler of the direct decode's error, which ends by
\* returning a recovered value or by raising parseErr again.
CatchParseErr(s, dbg, fx0, stages0) ==
    Recover(s, dbg, stages0, Then(fx0, logJsonParseAttempt(s, FALSE, dbg)))

\* Lines 51-55 and what follows their failure: p is JSON.parse(toolCallOutput),
\* okLog the record of line 54.
DirectStage(s, dbg, fx0, p, okLog) ==
    IF ~p.throws /\ ~Destructure(p.v).throws /\ ~okLog.throws
    THEN Returned(DirectValue(Destructure(p.v)), <<Stage("direct", s, TRUE)>>, Then(fx0, okLog))
    ELSE CatchParseErr(s, dbg,
                       IF ~p.throws /\ ~Destructure(p.v).throws THEN Then(fx0, okLog) ELSE fx0,
                       <<Stage("direct", s, FALSE)>>)

\* Lines 45-135: the body of the outer try.
TryBlock(s, dbg) ==
    DirectStage(s, dbg,
                IF dbg THEN Lines(<<"Attempting to parse tool call output">>) ELSE NoFx,
                JsonParse(s), logJsonParseAttempt(s, TRUE, dbg))

EndsWith(s, c) == Len(s) > 0 /\ s[Len(s)] = c
Includes(s, c) == \E i \in 1..Len(s) : s[i] = c

\* possibleTruncation without the endsWith test.
possibleTruncation_NoEndCheck(s) == Len(s) > 0 /\ Includes(s, LBrace)
possibleTruncation(s) == Len(s) > 0 /\ ~EndsWith(s, RBrace) /\ Includes(s, LBrace)

errorMessage_AlwaysGeneric(s) == MsgGeneric
errorMessage(s) == IF possibleTruncation(s) THEN MsgTruncated ELSE MsgGeneric

FallbackMetadata ==
    JsObj(<<[k |-> Key_exit_code, v |-> JsNum(Num(FALSE, 1, 0))],
            [k |-> Key_duration_seconds, v |-> JsNum(NumZero)]>>)

\* Lines 174-180.
FallbackValue(s) == [output |-> JsStr(<<errorMessage(s)>>), metadata |-> FallbackMetadata]

\* Lines 136-181: the outer catch, entered with what the try block did.
CatchBlock(s, t) ==
    LET errorInfo == [kind |-> "error-report",
                      rawOutput |-> s,
                      outputLength |-> Len(s),
                      outputStart |-> SubSeq(s, 1, IF Len(s) < 500 THEN Len(s) ELSE 500),
                      outputEnd |-> IF Len(s) > 500 THEN SubSeq(s, Len(s) - 499, Len(s)) ELSE <<>>,
                      openBrace |-> IndexOf(s, LBrace),
                      closeBrace |-> LastIndexOf(s, RBrace),
                      possibleTruncation |-> possibleTruncation(s)]
        fx == [throws |-> FALSE,
               console |-> <<"JSON parse error", "Raw output length">>
                           \o (IF possibleTruncation(s)
                               THEN <<"Possible truncation detected">> ELSE <<>>),
               writes |-> <<Write("logs", "json-parse-error", "log", errorInfo)>>]
    IN  Returned(FallbackValue(s),
                 Append(t.stages, Stage("fallback", s, TRUE)),
                 Then(t.fx, fx))

\* The outer try/catch: t is what the try block did.
TryCatch(s, t) == IF t.outcome = "return" THEN t ELSE CatchBlock(s, t)

\* parseToolCallOutput without its outer catch.
parseToolCallOutput_NoCatch(toolCallOutput, dbg) == TryBlock(toolCallOutput, dbg)

\* parseToolCallOutput(toolCallOutput) with process.env["DEBUG"] = dbg.
parseToolCallOutput(toolCallOutput, dbg) ==
    TryCatch(toolCallOutput, TryBlock(toolCallOutput, dbg))

-----------------------------------------------------------------------------
(* parseToolCallArguments.                                                 *)

Key_cmd == <<"c", "m", "d">>
Key_command == <<"c", "o", "m", "m", "a", "n", "d">>
Key_workdir == <<"w", "o", "r", "k", "d", "i", "r">>
Key_timeout == <<"t", "i", "m", "e", "o", "u", "t">>

\* toStringArray without the test of the elements.
toStringArray_NoElementCheck(obj) == IF obj.t = "arr" THEN obj ELSE Undefined

\* toStringArray(obj): the array, or undefined.
toStringArray(obj) ==
    IF obj.t = "arr" /\ \A i \in 1..Len(obj.kids) : obj.kids[i].t = "str"
    THEN obj
    ELSE Undefined

\* a ?? b
Coalesce(a, b) == IF a.t \in {"null", "undefined"} THEN b ELSE a

Absent == [absent |-> TRUE, cmd |-> Undefined, workdir |-> Undefined,
           timeoutInMillis |-> Undefined]

\* Lines 223-244: p is JSON.parse(toolCallArguments).
ArgumentsFrom(p) ==
    LET json == p.v
        commandArray == Coalesce(toStringArray(PropOf(json, Key_cmd)),
                                 toStringArray(PropOf(json, Key_command)))
        timeout == PropOf(json, Key_timeout)
        workdir == PropOf(json, Key_workdir)
    IN  IF p.throws
        THEN Returned(Absent, <<>>, Lines(<<"Failed to parse toolCall.arguments">>))
        ELSE IF ~IsObjectValue(json) THEN Returned(Absent, <<>>, NoFx)
        ELSE IF commandArray.t \in {"null", "undefined"} THEN Returned(Absent, <<>>, NoFx)
        ELSE Returned([absent |-> FALSE,
                       cmd |-> commandArray,
                       workdir |-> IF workdir.t = "str" THEN workdir ELSE Undefined,
                       timeoutInMillis |-> IF timeout.t = "num" THEN timeout ELSE Undefined],
                      <<>>, NoFx)

parseToolCallArguments(toolCallArguments) == ArgumentsFrom(JsonParse(toolCallArguments))

-----------------------------------------------------------------------------
(* The other entry points of the debug logger.                             *)

\* What a recorder entry point answers: nothing (void), with its effects.
Void(fx) == Returned([output |-> Undefined, metadata |-> Undefined], <<>>, fx)

\* command.join(' ')
RECURSIVE Join(_)
Join(command) ==
    IF command = <<>> THEN <<>>
    ELSE IF Len(command) = 1 THEN command[1]
    ELSE command[1] \o <<" ">> \o Join(Tail(command))

\* DebugLogger.logCommandExecution(command, output, exitCode, duration)
logCommandExecution(command, output, exitCode, duration, dbg) ==
    IF ~dbg THEN NoFx
    ELSE [throws |-> FALSE,
          console |-> <<"[DEBUG] Command executed", "[DEBUG] Exit code">>,
          writes |-> <<Write("debug-logs", "command-output", "json",
                             [kind |-> "command-output",
                              command |-> Join(command),
                              outputLength |-> Len(output),
                              exitCode |-> exitCode,
                              duration |-> duration,
                              outputPreview |-> Sample(output)])>>]

\* output.length > 100000
SizeLimit == 100000

\* The characters of the model that /[\x00-\x1F\x7F-\x9F]/ matches.
ControlChars == C0Controls \cup {"<U+0008>", "<U+007F>", "<U+009F>"}

\* getSizeInfo(str), every character of the model being one byte in UTF-8
\* except the tokens above U+007F, which are two; kb is in hundredths.
Bytes(str) == Len(str) + Count(str, "<U+009F>") + Count(str, "<U+00A0>")
getSizeInfo(str) ==
    [bytes |-> Bytes(str),
     kb |-> (Bytes(str) * 200 + 1024) \div 2048,
     tokens |-> (Len(str) + 3) \div 4]

\* The issues without the test of the length.
potential_issues_NoSizeCheck(output) ==
    (IF IndexOf(output, LBrace) # 0 /\ LastIndexOf(output, RBrace) < LastIndexOf(output, LBrace)
     THEN <<"JSON appears to be truncated - missing closing braces">> ELSE <<>>)
    \o (IF Count(output, LBrace) # Count(output, RBrace)
        THEN <<"Unbalanced JSON structure">> ELSE <<>>)
    \o (IF \E i \in 1..Len(output) : output[i] \in ControlChars
        THEN <<"Contains control characters that may corrupt JSON">> ELSE <<>>)

\* Lines 106-125: the issues pushed on potential_issues, in order.
potential_issues(output) ==
    (IF Len(output) > SizeLimit
     THEN <<"Output exceeds 100KB - may hit API token limits">> ELSE <<>>)
    \o (IF IndexOf(output, LBrace) # 0 /\ LastIndexOf(output, RBrace) < LastIndexOf(output, LBrace)
        THEN <<"JSON appears to be truncated - missing closing braces">> ELSE <<>>)
    \o (IF Count(output, LBrace) # Count(output, RBrace)
        THEN <<"Unbalanced JSON structure">> ELSE <<>>)
    \o (IF \E i \in 1..Len(output) : output[i] \in ControlChars
        THEN <<"Contains control characters that may corrupt JSON">> ELSE <<>>)

\* Lines 93-142 with the issues found.
Analysis(functionName, argsString, output, issues) ==
    [throws |-> FALSE,
     console |-> <<"[DEBUG] Tool call analysis", "[DEBUG] Arguments">>
                 \o (IF Len(issues) > 0
                     THEN <<"[DEBUG] Potential issues detected">>
                          \o [i \in 1..Len(issues) |-> "[DEBUG] - issue"]
                     ELSE <<>>),
     writes |-> <<Write("debug-logs", "tool-call-analysis", "json",
                        [kind |-> "tool-call-analysis",
                         functionName |-> functionName,
                         argumentsLength |-> Len(argsString),
                         outputLength |-> Len(output),
                         potential_issues |-> issues,
                         size_analysis |-> [arguments |-> getSizeInfo(argsString),
                                            output |-> getSizeInfo(output)]])>>
                \o (IF Len(issues) > 0
                    THEN <<Write("debug-logs", "problematic-tool-output", "txt",
                                 [kind |-> "raw", content |-> output])>>
                    ELSE <<>>)]

\* analyzeToolCallOutput without the test of the switch.
analyzeToolCallOutput_NoSwitch(functionName, argsString, output, dbg) ==
    Analysis(functionName, argsString, output, potential_issues(output))

\* DebugLogger.analyzeToolCallOutput(functionName, argsString, output)
analyzeToolCallOutput(functionName, argsString, output, dbg) ==
    IF ~dbg THEN NoFx
    ELSE Analysis(functionName, argsString, output, potential_issues(output))

-----------------------------------------------------------------------------
(* model-utils.ts: the model names and the list of available models.       *)

T_deepseek_chat == <<"d", "e", "e", "p", "s", "e", "e", "k", "-", "c", "h", "a", "t">>
T_deepseek_reasoner ==
    <<"d", "e", "e", "p", "s", "e", "e", "k", "-", "r", "e", "a", "s", "o", "n", "e", "r">>
T_my_model == <<"m", "y", "-", "m", "o", "d", "e", "l">>
T_big_model == <<"b", "i", "g", "-", "m", "o", "d", "e", "l">>

RECOMMENDED_MODELS == <<T_deepseek_chat, T_deepseek_reasoner>>

modelMap ==
    <<[k |-> <<"o", "4", "-", "m", "i", "n", "i">>, v |-> T_deepseek_chat],
      [k |-> <<"o", "3">>, v |-> T_deepseek_chat],
      [k |-> <<"g", "p", "t", "-", "4">>, v |-> T_deepseek_chat],
      [k |-> <<"g", "p", "t", "-", "4", ".", "1">>, v |-> T_deepseek_chat],
      [k |-> <<"g", "p", "t", "-", "4", "o">>, v |-> T_deepseek_reasoner],
      [k |-> <<"d", "e", "e", "p", "s", "e", "e", "k", "-", "c", "o", "d", "e", "r">>,
       v |-> T_deepseek_chat]>>

\* modelMap[openaiModel] || openaiModel, for the names that are no property of
\* Object.prototype.
mapToDeepSeekModel(openaiModel) ==
    IF \E i \in 1..Len(modelMap) : modelMap[i].k = openaiModel
    THEN modelMap[CHOOSE i \in 1..Len(modelMap) : modelMap[i].k = openaiModel].v
    ELSE openaiModel

\* String.prototype.trim over the white space of the model.
Trim(s) ==
    LET keep == {i \in 1..Len(s) : s[i] \notin JsonWs \cup {"\f", "<U+00A0>"}}
    IN  IF keep = {} THEN <<>>
        ELSE SubSeq(s, CHOOSE i \in keep : \A j \in keep : i <= j,
                       CHOOSE i \in keep : \A j \in keep : j <= i)

\* The characters of the model names, by ascending UTF-16 code unit.
NameChars ==
    <<"-", ".", "0", "1", "2", "3", "4", "5", "6", "7", "8", "9",
      "a", "b", "c", "d", "e", "f", "g", "h", "i", "j", "k", "l", "m",
      "n", "o", "p", "q", "r", "s", "t", "u", "v", "w", "x", "y", "z">>

\* a < b as Array.prototype.sort compares two strings: by code units.
RECURSIVE Before(_, _)
Before(a, b) ==
    IF b = <<>> THEN FALSE
    ELSE IF a = <<>> THEN TRUE
    ELSE IF a[1] # b[1]
         THEN \E i, j \in 1..Len(NameChars) :
                 NameChars[i] = a[1] /\ NameChars[j] = b[1] /\ i < j
    ELSE Before(Tail(a), Tail(b))

\* models.sort()
RECURSIVE Sort(_)
Insert(x, sorted) ==
    LET n == Cardinality({i \in 1..Len(sorted) : ~Before(x, sorted[i])})
    IN  SubSeq(sorted, 1, n) \o <<x>> \o SubSeq(sorted, n + 1, Len(sorted))
Sort(models) == IF models = <<>> THEN <<>> ELSE Insert(models[1], Sort(Tail(models)))

\* The loop over the list the API answered: the ids that are strings, in order.
RECURSIVE Ids(_)
Ids(list) ==
    IF list = <<>> THEN <<>>
    ELSE (IF list[1].t \notin {"null", "undefined"} /\ PropOf(list[1], <<"i", "d">>).t = "str"
          THEN <<PropOf(list[1], <<"i", "d">>).s>> ELSE <<>>) \o Ids(Tail(list))

\* What fetchModels resolves with once the request has ended in response.
Listed(models) == IF Len(models) > 0 THEN Sort(models) ELSE RECOMMENDED_MODELS
fetchModels(response) ==
    IF response.ok
    THEN [models |-> Listed(Ids(response.list)), warn |-> <<>>]
    ELSE [models |-> RECOMMENDED_MODELS,
          warn |-> <<"Failed to fetch models from DeepSeek API:">>]

\* The promise fetchModels returns: settled at once when no key is configured.
Promise(state, value, response) == [state |-> state, value |-> value, response |-> response]
NewPromise(key) ==
    IF ~key THEN Promise("fulfilled", RECOMMENDED_MODELS, "no-key")
    ELSE Promise("pending", <<>>, "none")

\* if (!modelsPromise) of getAvailableModels
NeedsFetch_Always(mp) == TRUE
NeedsFetch(mp) == mp = 0

\* The answer of isModelSupportedForResponses on the list it obtained.
Supported(models, mappedModel) == Len(models) = 0 \/ Includes(models, mappedModel)

\* Whether isModelSupportedForResponses answers before it asks for the list.
AnswersEarly(model) ==
    \/ model.t # "str"
    \/ Trim(model.s) = <<>>
    \/ Includes(RECOMMENDED_MODELS, mapToDeepSeekModel(model.s))

-----------------------------------------------------------------------------
(* The asynchronous writes.  Each is handed the write w, whether the file  *)
(* system lets it through (ok) and the clock when it runs (t), and answers *)
(* the target it names, whether it stored, the line it logs and whether    *)
(* its promise rejects.                                                    *)

Target(w, t) == [dir |-> w.dir, prefix |-> w.prefix, ext |-> w.ext, stamp |-> t]

\* parsers.ts writeErrorLog
writeErrorLog(w, ok, t) ==
    [target |-> Target(w, t), stored |-> ok, rejects |-> FALSE,
     line |-> IF ok THEN "Error details written to" ELSE "Failed to write error log"]

\* writeToLogFile without its try/catch: a refused write rejects the promise.
writeToLogFile_NoCatch(w, ok, t) ==
    [target |-> Target(w, t), stored |-> ok, rejects |-> ~ok,
     line |-> "[DEBUG] Log written to"]

\* DebugLogger.writeToLogFile
writeToLogFile(w, ok, t) ==
    [target |-> Target(w, t), stored |-> ok, rejects |-> FALSE,
     line |-> IF ok THEN "[DEBUG] Log written to" ELSE "[DEBUG] Failed to write log"]

\* DebugLogger.writeRawContent
writeRawContent(w, ok, t) ==
    [target |-> Target(w, t), stored |-> ok, rejects |-> FALSE,
     line |-> IF ok THEN "[DEBUG] Raw content written to"
                    ELSE "[DEBUG] Failed to write raw content"]

\* The function a pending write is running.
Writer(w, ok, t) ==
    IF w.dir = "logs" THEN writeErrorLog(w, ok, t)
    ELSE IF w.ext = "txt" THEN writeRawContent(w, ok, t)
    ELSE writeToLogFile(w, ok, t)

FailureLines == {"Failed to write error log", "[DEBUG] Failed to write log",
                 "[DEBUG] Failed to write raw content"}
SuccessLines == {"Error details written to", "[DEBUG] Log written to",
                 "[DEBUG] Raw content written to"}

-----------------------------------------------------------------------------
(* The inputs.                                                             *)

Sigma == {LBrace, RBrace, DQuote, "1", "[", "a"}
Texts(n) == UNION {[1..k -> Sigma] : k \in 0..n}

ExecMetadata(x, d) ==
    JsObj(<<[k |-> Key_exit_code, v |-> JsNum(x)],
            [k |-> Key_duration_seconds, v |-> JsNum(d)]>>)
ToolResult(o, x, d) ==
    JsObj(<<[k |-> Key_output, v |-> JsStr(o)], [k |-> Key_metadata, v |-> ExecMetadata(x, d)]>>)

Hello == <<"h", "e", "l", "l", "o">>
ValidOutputs == {<<>>, <<"a">>, Hello, <<"a", LBrace>>, <<RBrace, DQuote>>,
                 <<Backslash, "\n">>, <<Ctl01>>}
ExitCodes == {NumZero, Num(TRUE, 1, 0)}
Durations == {NumZero, Num(FALSE, 15, -1)}
ValidToolResults ==
    {ToolResult(o, x, d) : o \in ValidOutputs, x \in ExitCodes, d \in Durations}

\* generateTestOutput: the encoding of a ToolResult.
Encoded == {JsonStringify(v) : v \in ValidToolResults}
\* testCorruptedJson: an encoding with its last c characters cut off.
Cut(e, c) == SubSeq(e, 1, Len(e) - c)
MaxCut == 2
Truncated == {Cut(e, c) : e \in Encoded, c \in 1..MaxCut}
\* An encoding followed by garbage.
Garbage == {<<"x">>, <<"T", LBrace>>, <<"T", RBrace>>, <<" ">>}
Trailed == {e \o g : e \in Encoded, g \in Garbage}

\* Payloads that are JSON, or nearly, without being a ToolResult.
Flat(o) == JsObj(<<[k |-> Key_output, v |-> o], [k |-> Key_metadata, v |-> JsNum(NumZero)]>>)
OtherValues ==
    {JsNull, JsBool(TRUE), JsStr(<<"a">>), JsNum(Num(FALSE, 42, 0)), JsArr(<<JsNum(NumZero)>>),
     JsObj(<<[k |-> <<"a">>, v |-> JsNum(NumZero)]>>),
     Flat(JsStr(<<"a">>)), Flat(JsArr(<<JsNull, JsNum(Num(FALSE, 15, -1))>>)),
     Flat(JsObj(<<[k |-> Key_toString, v |-> JsNum(NumZero)]>>)),
     JsObj(<<[k |-> Key_output, v |-> JsObj(<<[k |-> Key_toString, v |-> JsNum(NumZero)]>>)]>>),
     JsObj(<<[k |-> Key_metadata, v |-> JsNum(NumZero)], [k |-> Key_output, v |-> JsStr(<<"a", LBrace>>)]>>),
     JsObj(<<[k |-> Key_output, v |-> JsObj(<<[k |-> Key_toString, v |-> JsNum(NumZero)]>>)],
             [k |-> Key_metadata, v |-> JsStr(<<LBrace>>)]>>)}
Others ==
    {JsonStringify(v) : v \in OtherValues}
    \cup {JsonStringify(v) \o <<"x">> : v \in OtherValues}
    \cup {<<"x">> \o JsonStringify(v) : v \in OtherValues}
    \cup {Cut(JsonStringify(v), 1) : v \in OtherValues}

Payloads == Texts(MaxLen) \cup Encoded \cup Truncated \cup Trailed \cup Others

\* Argument payloads: an object with each of cmd, command, workdir and timeout
\* left out or given one of a few values, and the short texts.
Str(s) == JsStr(s)
Ls == Str(<<"l", "s">>)
Member(k, v) == IF v.t = "undefined" THEN <<>> ELSE <<[k |-> k, v |-> v]>>
CmdChoices == {Undefined, JsArr(<<Ls, Str(<<"-", "l", "a">>)>>), JsArr(<<>>), Ls,
               JsArr(<<Ls, JsNum(NumZero)>>)}
CommandChoices == {Undefined, JsArr(<<Str(<<"p", "w", "d">>)>>), Ls}
WorkdirChoices == {Undefined, Str(<<"/", "t", "m", "p">>), JsNum(NumZero)}
TimeoutChoices == {Undefined, JsNum(Num(FALSE, 5, 0)), JsNum(Num(TRUE, 1, 0)),
                   JsNum(Num(FALSE, 15, -1)), Str(<<"1", "0">>)}
ArgObjects ==
    {JsObj(Member(Key_command, c2) \o Member(Key_cmd, c1)
           \o Member(Key_workdir, w) \o Member(Key_timeout, t)) :
        c1 \in CmdChoices, c2 \in CommandChoices, w \in WorkdirChoices, t \in TimeoutChoices}
ArgPayloads ==
    {JsonStringify(v) : v \in ArgObjects}
    \cup {JsonStringify(v) : v \in {JsNull, JsArr(<<Ls>>), Ls}}
    \cup Texts(MaxLen)

\* The payloads of the process-level specification: one or two per path through
\* parseToolCallOutput.
HelloResult == ToolResult(Hello, NumZero, Num(FALSE, 15, -1))
ProcPayloads ==
    {<<>>,
     JsonStringify(HelloResult),
     Cut(JsonStringify(HelloResult), 1),
     JsonStringify(HelloResult) \o <<"T", LBrace>>,
     <<LBrace>>,
     <<"1">>,
     JsonStringify(Flat(Str(<<"a">>))) \o <<"x">>}
ProcArgPayloads ==
    {<<"a">>, JsonStringify(JsObj(Member(Key_cmd, JsArr(<<Ls, Str(<<"-", "l", "a">>)>>))))}

\* The texts handed to analyzeToolCallOutput: the short texts, texts with a
\* character inside and just outside the control ranges, and texts at and over
\* the size limit.
FunctionName == <<"s", "h", "e", "l", "l">>
\* "a".repeat(k)
RECURSIVE Repeat(_)
Repeat(k) ==
    IF k = 0 THEN <<>>
    ELSE LET half == Repeat(k \div 2)
         IN  half \o half \o (IF k % 2 = 1 THEN <<"a">> ELSE <<>>)
LimitText == Repeat(SizeLimit)
LongText == Repeat(SizeLimit + 1)
AnalyzeOutputs ==
    Texts(MaxLen)
    \cup {LimitText, LongText, <<"a", "\n">>, <<"<U+007F>">>, <<"<U+00A0>">>,
          <<LBrace, "\t", RBrace>>, <<LBrace, RBrace, RBrace, LBrace, LBrace, RBrace>>}

\* The runs handed to logCommandExecution.
CommandRuns ==
    {[command |-> c, output |-> o, exitCode |-> x, duration |-> d] :
        c \in {<<>>, <<Ls.s>>, <<Ls.s, <<"-", "l", "a">>>>}, o \in {<<>>, Hello},
        x \in ExitCodes, d \in Durations}

\* The recorder inputs of the process-level specification.
ProcAnalyzeOutputs == {<<"a">>, <<LBrace>>}
ProcCommandRuns == {[command |-> <<Ls.s>>, output |-> Hello, exitCode |-> NumZero,
                     duration |-> NumZero]}
ProcAttempts == {<<LBrace>>}

\* The models asked about, and what the models endpoint may answer.
ModelArgs ==
    {JsNull, JsStr(<<" ">>), JsStr(<<"g", "p", "t", "-", "4", "o">>), JsStr(T_my_model)}
ListEntries ==
    {JsObj(<<[k |-> <<"i", "d">>, v |-> JsStr(T_my_model)]>>),
     JsObj(<<[k |-> <<"i", "d">>, v |-> JsStr(T_big_model)]>>),
     JsObj(<<[k |-> <<"i", "d">>, v |-> JsNum(NumZero)]>>)}
Responses ==
    {[ok |-> FALSE, list |-> <<>>]}
    \cup {[ok |-> TRUE, list |-> l] : l \in UNION {[1..k -> ListEntries] : k \in 0..MaxList}}

\* What the entry points answer on every input of the model.
Decoded == [dbg \in BOOLEAN |-> [r \in Payloads |-> parseToolCallOutput(r, dbg)]]
ArgsDecoded == [r \in ArgPayloads |-> parseToolCallArguments(r)]

-----------------------------------------------------------------------------
(* The process.                                                            *)

NoReturn == [outcome |-> "none", value |-> [output |-> Undefined, metadata |-> Undefined],
             stages |-> <<>>]

Init ==
    /\ debug \in BOOLEAN
    /\ calls = 0
    /\ op = "none"
    /\ raw = <<>>
    /\ ret = NoReturn
    /\ pending = <<>>
    /\ store = <<>>
    /\ console = <<>>
    /\ now = 0
    /\ failures = 0
    /\ unhandled = FALSE
    /\ exited = FALSE
    /\ fetched = <<>>
    /\ modelsPromise = 0
    /\ callers = <<>>

\* The writes of fx, stamped with the clock of their issue.
Issue(writes, t) == [i \in 1..Len(writes) |-> [w |-> writes[i], issued |-> t]]

\* The files a sequence of writes leaves when each runs to its end at clock t.
RECURSIVE StoreAll(_, _, _)
StoreAll(st, writes, t) ==
    IF writes = <<>> THEN st
    ELSE StoreAll((Target(writes[1], t) :> writes[1].body) @@ st, Tail(writes), t)

Call_AwaitingWrites(name, r, d) ==
    /\ op' = name
    /\ raw' = r
    /\ ret' = [outcome |-> d.outcome, value |-> d.value, stages |-> d.stages]
    /\ console' = console \o d.fx.console
    /\ store' = StoreAll(store, d.fx.writes, now)
    /\ unhandled' = (unhandled \/ d.outcome = "throw")
    /\ calls' = calls + 1
    /\ UNCHANGED <<debug, pending, now, failures, exited, modelVars>>

\* A caller runs r(raw) for one of the entry points; what the call logged and
\* the writes it issued are in place when it returns.
Call(name, r, d) ==
    /\ op' = name
    /\ raw' = r
    /\ ret' = [outcome |-> d.outcome, value |-> d.value, stages |-> d.stages]
    /\ console' = console \o d.fx.console
    /\ pending' = pending \o Issue(d.fx.writes, now)
    /\ unhandled' = (unhandled \/ d.outcome = "throw")
    /\ calls' = calls + 1
    /\ UNCHANGED <<debug, store, now, failures, exited, modelVars>>

CallParseToolCallOutput(inputs, max) ==
    \E r \in inputs :
        /\ calls < max
        /\ Call("output", r, Decoded[debug][r])

CallParseToolCallArguments(inputs, max) ==
    \E r \in inputs :
        /\ calls < max
        /\ Call("arguments", r, ArgsDecoded[r])

\* A caller hands a candidate and the outcome of its decoding to the recorder.
CallLogJsonParseAttempt(inputs, max) ==
    \E r \in inputs, success \in BOOLEAN :
        /\ calls < max
        /\ Call("parse-attempt", r, Void(logJsonParseAttempt(r, success, debug)))

CallLogCommandExecution(inputs, max) ==
    \E c \in inputs :
        /\ calls < max
        /\ Call("command", c.output,
                Void(logCommandExecution(c.command, c.output, c.exitCode, c.duration, debug)))

CallAnalyzeToolCallOutput(inputs, max) ==
    \E r \in inputs, a \in ProcArgPayloads :
        /\ calls < max
        /\ Call("analyze", r, Void(analyzeToolCallOutput(FunctionName, a, r, debug)))

Remove(q, i) == SubSeq(q, 1, i - 1) \o SubSeq(q, i + 1, Len(q))

RunWrite_StampAtIssue ==
    \E i \in 1..Len(pending), ok \in BOOLEAN :
        LET r == Writer(pending[i].w, ok, pending[i].issued)
        IN  /\ pending' = Remove(pending, i)
            /\ store' = IF r.stored THEN (r.target :> pending[i].w.body) @@ store ELSE store
            /\ console' = Append(console, r.line)
            /\ failures' = IF ok THEN failures ELSE failures + 1
            /\ unhandled' = (unhandled \/ r.rejects)
            /\ UNCHANGED <<debug, calls, op, raw, ret, now, exited, modelVars>>

\* One of the pending writes runs to its end: it takes the timestamp, writes
\* the file or fails, and logs which.
RunWrite ==
    \E i \in 1..Len(pending), ok \in BOOLEAN :
        LET r == Writer(pending[i].w, ok, now)
        IN  /\ pending' = Remove(pending, i)
            /\ store' = IF r.stored THEN (r.target :> pending[i].w.body) @@ store ELSE store
            /\ console' = Append(console, r.line)
            /\ failures' = IF ok THEN failures ELSE failures + 1
            /\ unhandled' = (unhandled \/ r.rejects)
            /\ UNCHANGED <<debug, calls, op, raw, ret, now, exited, modelVars>>

Tick ==
    /\ now < MaxTime
    /\ now' = now + 1
    /\ UNCHANGED <<debug, calls, op, raw, ret, pending, store, console, failures, unhandled,
                   exited, modelVars>>

\* The process exits: the writes that have not run never will.
Exit ==
    /\ ~exited
    /\ exited' = TRUE
    /\ pending' = <<>>
    /\ UNCHANGED <<debug, calls, op, raw, ret, store, console, now, failures, unhandled,
                   modelVars>>

\* One call of an entry point, then the writes it left behind and the clock.
Next ==
    \/ CallParseToolCallOutput(ProcPayloads, 1)
    \/ CallParseToolCallArguments(ProcArgPayloads, 1)
    \/ RunWrite
    \/ Tick

Spec == Init /\ [][Next]_vars

\* One call of an entry point on any input of the model.
NextInputs ==
    \/ CallParseToolCallOutput(Payloads, 1)
    \/ CallParseToolCallArguments(ArgPayloads, 1)
    \/ CallLogJsonParseAttempt(ProcPayloads, 1)
    \/ CallLogCommandExecution(CommandRuns, 1)
    \/ CallAnalyzeToolCallOutput(AnalyzeOutputs, 1)

SpecInputs == Init /\ [][NextInputs]_vars

\* One decoding call in a process that may exit at any moment.
NextLifetime ==
    \/ ~exited /\ CallParseToolCallOutput(ProcPayloads, 1)
    \/ ~exited /\ RunWrite
    \/ ~exited /\ Tick
    \/ Exit

SpecLifetime == Init /\ [][NextLifetime]_vars

\* Calls of the recorder entry points, in any order, with the writes they leave
\* behind run in any order, all within one tick of the clock.
NextRecorder ==
    \/ CallLogJsonParseAttempt(ProcAttempts, MaxCalls)
    \/ CallLogCommandExecution(ProcCommandRuns, MaxCalls)
    \/ CallAnalyzeToolCallOutput(ProcAnalyzeOutputs, MaxCalls)
    \/ RunWrite

SpecRecorder == Init /\ [][NextRecorder]_vars

\* A call into model-utils: the function, its argument, the promise it awaits
\* (0 for none), whether that promise was settled when the call was made, where
\* the call is, the list it obtained, whether its timer gave it, and its answer.
Caller(fn, model, awaits, cached, state, list, timedOut, answer) ==
    [fn |-> fn, model |-> model, awaits |-> awaits, cached |-> cached, state |-> state,
     list |-> list, timedOut |-> timedOut, answer |-> answer]

\* getAvailableModels up to its return: the cached promise, made first if there
\* is none. fetchModels reads DEEPSEEK_API_KEY when it runs: key says whether one
\* is configured.
Obtain ==
    IF NeedsFetch(modelsPromise)
    THEN \E key \in BOOLEAN :
            /\ fetched' = Append(fetched, NewPromise(key))
            /\ modelsPromise' = Len(fetched) + 1
    ELSE UNCHANGED <<fetched, modelsPromise>>

preloadModels ==
    /\ Len(callers) < MaxModelCalls
    /\ IF modelsPromise = 0 THEN Obtain ELSE UNCHANGED <<fetched, modelsPromise>>
    /\ callers' = Append(callers, Caller("preloadModels", Undefined, 0, FALSE, "done",
                                         <<>>, FALSE, TRUE))
    /\ UNCHANGED <<logVars, console>>

getAvailableModels ==
    /\ Len(callers) < MaxModelCalls
    /\ Obtain
    /\ callers' = Append(callers,
                         Caller("getAvailableModels", Undefined, modelsPromise',
                                fetched'[modelsPromise'].state = "fulfilled", "waiting",
                                <<>>, FALSE, TRUE))
    /\ UNCHANGED <<logVars, console>>

isModelSupportedForResponses(model) ==
    /\ Len(callers) < MaxModelCalls
    /\ IF AnswersEarly(model)
       THEN /\ callers' = Append(callers, Caller("isModelSupportedForResponses", model, 0,
                                                 FALSE, "done", <<>>, FALSE, TRUE))
            /\ UNCHANGED <<fetched, modelsPromise>>
       ELSE /\ Obtain
            /\ callers' = Append(callers,
                                 Caller("isModelSupportedForResponses", model, modelsPromise',
                                        fetched'[modelsPromise'].state = "fulfilled",
                                        "waiting", <<>>, FALSE, TRUE))
    /\ UNCHANGED <<logVars, console>>

\* How the promise of a pending fetchModels can settle, with what the function
\* logs on the way: one way for each answer of the endpoint.
Settlements ==
    {[promise |-> Promise("fulfilled", fetchModels(response).models,
                          IF ~response.ok THEN "error"
                          ELSE IF Ids(response.list) = <<>> THEN "empty" ELSE "list"),
      warn |-> fetchModels(response).warn] : response \in Responses}

\* The request of a pending fetchModels ends and its promise settles.
FetchSettles ==
    \E i \in 1..Len(fetched), settled \in Settlements :
        /\ fetched[i].state = "pending"
        /\ fetched' = [fetched EXCEPT ![i] = settled.promise]
        /\ console' = console \o settled.warn
        /\ UNCHANGED <<logVars, modelsPromise, callers>>

\* A waiting call resumes with the value of the promise it awaits.
Resume ==
    \E c \in 1..Len(callers) :
        /\ callers[c].state = "waiting"
        /\ fetched[callers[c].awaits].state = "fulfilled"
        /\ callers' = [callers EXCEPT ![c] =
                          Caller(@.fn, @.model, @.awaits, @.cached, "done",
                                 fetched[@.awaits].value, FALSE,
                                 @.fn = "getAvailableModels"
                                 \/ Supported(fetched[@.awaits].value,
                                              mapToDeepSeekModel(@.model.s)))]
        /\ UNCHANGED <<logVars, console, fetched, modelsPromise>>

\* The timer of a waiting isModelSupportedForResponses fires before the promise
\* has settled: the race resolves with the empty list.
TimeoutFires ==
    \E c \in 1..Len(callers) :
        /\ callers[c].state = "waiting"
        /\ callers[c].fn = "isModelSupportedForResponses"
        /\ fetched[callers[c].awaits].state = "pending"
        /\ callers' = [callers EXCEPT ![c] =
                          Caller(@.fn, @.model, @.awaits, @.cached, "done", <<>>, TRUE,
                                 Supported(<<>>, mapToDeepSeekModel(@.model.s)))]
        /\ UNCHANGED <<logVars, console, fetched, modelsPromise>>

\* Calls into model-utils in any order, with the request and the timers ending
\* at any moment.
NextModels ==
    \/ preloadModels
    \/ getAvailableModels
    \/ \E model \in ModelArgs : isModelSupportedForResponses(model)
    \/ FetchSettles
    \/ Resume
    \/ TimeoutFires

SpecModels == Init /\ [][NextModels]_vars

-----------------------------------------------------------------------------
(* The claims.                                                             *)

EncodingOf == [v \in ValidToolResults |-> JsonStringify(v)]
LastStage == ret.stages[Len(ret.stages)]
DecodeReturned == op = "output" /\ ret.outcome = "return"
CountLines(ls) == Cardinality({i \in 1..Len(console) : console[i] \in ls})

\* C1: for every text, parseToolCallOutput returns a value and raises nothing to
\* its caller, whichever stage fails, with diagnostics on or off.
C1_NeverRaises == op = "output" => ret.outcome = "return" /\ ~unhandled

\* C1, witness: with diagnostics on, the patch stage failed and the call still
\* returned, from the fallback.
C1_Witness ==
    /\ DecodeReturned /\ debug
    /\ Len(ret.stages) = 3
    /\ ret.stages[2] = Stage("patch", fixedJson(raw), FALSE)
    /\ LastStage.stage = "fallback"

IsToolResult(v) ==
    /\ v.output.t = "str"
    /\ v.metadata.t = "obj"
    /\ PropOf(v.metadata, Key_exit_code).t = "num"
    /\ PropOf(v.metadata, Key_duration_seconds).t = "num"

\* C2: every value parseToolCallOutput returns is a well-formed ToolResult:
\* output is text and metadata is an object with exit_code and duration_seconds.
C2_WellFormed == DecodeReturned => IsToolResult(ret.value)

\* C3: an encoded ToolResult with exactly its final closing brace removed is
\* recovered by the close-brace patch: the original output with the patch note
\* appended, and the original metadata.
C3_PatchRecovers ==
    op = "output" =>
        \A v \in ValidToolResults :
            raw = Cut(EncodingOf[v], 1) =>
                /\ ret.outcome = "return"
                /\ LastStage = Stage("patch", fixedJson(raw), TRUE)
                /\ ret.value = [output |-> JsStr(Append(PropOf(v, Key_output).s, NotePatched)),
                                metadata |-> PropOf(v, Key_metadata)]

\* C4: an encoded ToolResult followed by garbage that ends in an unmatched open
\* brace is recovered by the embedded-object extraction: the embedded output
\* with the extraction note appended.
C4_ExtractRecovers ==
    op = "output" =>
        \A v \in ValidToolResults :
            raw = EncodingOf[v] \o <<"T", LBrace>> =>
                /\ ret.outcome = "return"
                /\ LastStage.stage = "extract" /\ LastStage.success
                /\ ret.value.output = JsStr(Append(PropOf(v, Key_output).s, NoteExtracted))

NoDelimiters(s) == \A i \in 1..Len(s) : s[i] \notin {LBrace, RBrace}
GenericFailure ==
    [output |-> JsStr(<<"Failed to parse JSON result. Check logs for details.">>),
     metadata |-> ExecMetadata(Num(FALSE, 1, 0), NumZero)]

\* C5: for the empty text and every text without an open or close brace, the
\* result is the generic-failure message with metadata {exit_code: 1,
\* duration_seconds: 0}, and nothing is raised.
C5_NoDelimitersGeneric ==
    op = "output" /\ NoDelimiters(raw) => ret.outcome = "return" /\ ret.value = GenericFailure

\* C6: round trip: the encoding of a valid ToolResult v decodes to v, by the
\* direct stage, with no note appended to output.
C6_RoundTrip ==
    op = "output" =>
        \A v \in ValidToolResults :
            raw = EncodingOf[v] =>
                /\ ret.outcome = "return"
                /\ ret.stages = <<Stage("direct", raw, TRUE)>>
                /\ ret.value = [output |-> PropOf(v, Key_output),
                                metadata |-> PropOf(v, Key_metadata)]

\* C6, witness: an encoding with an escaped character in it was decoded.
C6_Witness ==
    /\ DecodeReturned
    /\ \E v \in ValidToolResults : raw = EncodingOf[v] /\ Includes(PropOf(v, Key_output).s, Backslash)

TruncationShape(s) == s # <<>> /\ s[Len(s)] # RBrace /\ \E i \in 1..Len(s) : s[i] = LBrace

\* C7: when every recovery stage is exhausted, output is the truncation message
\* exactly when raw is non-empty, does not end with a close brace and holds an
\* open brace, and the generic message otherwise; metadata is {exit_code: 1,
\* duration_seconds: 0} in both cases.
C7_FallbackLiteral ==
    DecodeReturned /\ LastStage.stage = "fallback" =>
        /\ ret.value.output =
              JsStr(<<IF TruncationShape(raw)
                      THEN "Response appears to be truncated due to token limits. Try a smaller command output or check logs for details."
                      ELSE "Failed to parse JSON result. Check logs for details.">>)
        /\ ret.value.metadata = ExecMetadata(Num(FALSE, 1, 0), NumZero)

\* C7, witness: the fallback answered the generic message for a text that holds
\* an open brace and ends with a close brace.
C7_Witness ==
    /\ DecodeReturned /\ LastStage.stage = "fallback"
    /\ Includes(raw, LBrace) /\ EndsWith(raw, RBrace)
    /\ ret.value.output = JsStr(<<MsgGeneric>>)

IsTextArray(v) == v.t = "arr" /\ \A i \in 1..Len(v.kids) : v.kids[i].t = "str"

\* C8: parseToolCallArguments raises nothing; it answers a descriptor exactly
\* when raw parses to an object whose cmd, or failing that whose command, is an
\* array of text; the descriptor's cmd is the cmd array when cmd qualifies and
\* the command array otherwise.
C8_ArgumentsDecoded ==
    op = "arguments" =>
        LET p == JsonParse(raw)
            isObj == ~p.throws /\ p.v.t = "obj"
            cmd == GetProp(p.v.kids, Key_cmd)
            command == GetProp(p.v.kids, Key_command)
            cmdOk == isObj /\ IsTextArray(cmd)
            commandOk == isObj /\ IsTextArray(command)
        IN  /\ ret.outcome = "return" /\ ~unhandled
            /\ ~ret.value.absent <=> (cmdOk \/ commandOk)
            /\ cmdOk => ret.value.cmd = cmd
            /\ ~cmdOk /\ commandOk => ret.value.cmd = command

\* C8, witness: cmd was given as plain text and command as an array of text,
\* and the descriptor carries the command array.
C8_Witness ==
    /\ op = "arguments" /\ ~ret.value.absent
    /\ LET p == JsonParse(raw)
       IN  /\ PropOf(p.v, Key_cmd).t = "str"
           /\ ret.value.cmd = PropOf(p.v, Key_command)

\* C9: every descriptor parseToolCallArguments answers has only text in cmd,
\* a workdir only when the payload's workdir is text, and a timeout only when
\* the payload's timeout is a number, which is then a non-negative integer.
C9_DescriptorConstraints ==
    op = "arguments" /\ ~ret.value.absent =>
        LET p == JsonParse(raw)
            t == ret.value.timeoutInMillis
            w == ret.value.workdir
        IN  /\ \A i \in 1..Len(ret.value.cmd.kids) : ret.value.cmd.kids[i].t = "str"
            /\ w.t # "undefined" => w.t = "str" /\ w = PropOf(p.v, Key_workdir)
            /\ t.t # "undefined" =>
                  /\ t.t = "num" /\ t = PropOf(p.v, Key_timeout)
                  /\ ~t.n.neg /\ t.n.e >= 0

\* The value a call returns is the same with the diagnostic switch on and off,
\* for every payload of the model.
DebugIndependent ==
    \A r \in Payloads :
        /\ Decoded[TRUE][r].outcome = Decoded[FALSE][r].outcome
        /\ Decoded[TRUE][r].value = Decoded[FALSE][r].value

\* C10: the value parseToolCallOutput returns for raw is the same with the
\* diagnostic switch on or off and whether the log writes succeed or fail: a
\* failing write is caught where it runs and reported on the console, and it
\* neither changes the value returned nor raises.
C10_WritesNeverAffectResult ==
    /\ DebugIndependent
    /\ ~unhandled
    /\ CountLines(FailureLines) = failures
    /\ op = "output" =>
          /\ ret.outcome = "return"
          /\ ret.value = Decoded[~debug][raw].value

\* C10, witness: with diagnostics on, the write of a parse-attempt record and
\* the write of the error report have both failed after the call returned.
C10_Witness ==
    /\ DecodeReturned /\ debug
    /\ \E i, j \in 1..Len(console) :
          /\ console[i] = "[DEBUG] Failed to write log"
          /\ console[j] = "Failed to write error log"

\* C11: with the diagnostic switch off, calls of logJsonParseAttempt,
\* logCommandExecution and analyzeToolCallOutput, however many and in whatever
\* order, issue no write, log nothing on the console and leave the log
\* directories as they were.
C11_RecorderSilentWhenOff ==
    ~debug => pending = <<>> /\ console = <<>> /\ store = <<>>

\* C11, witness: with the switch off, a second recorder call has been made, the
\* last one being analyzeToolCallOutput on a text it would flag.
C11_Witness ==
    /\ ~debug /\ calls >= 2
    /\ op = "analyze" /\ raw = <<LBrace>>

\* C12: with the diagnostic switch off, a call of parseToolCallOutput leaves
\* no file in any log directory, whatever the input and the stage it ends in,
\* the fallback included.
C12_NoArtifactWhenOff ==
    op = "output" /\ ~debug => store = <<>>

WritesOf(prefix) == {i \in 1..Len(pending) : pending[i].w.prefix = prefix}
TooLong(s) == Len(s) > 100000
OpenNeverClosed(s) ==
    \E i \in 1..Len(s) : s[i] = LBrace /\ \A j \in (i + 1)..Len(s) : s[j] # RBrace
Unbalanced(s) ==
    Cardinality({i \in 1..Len(s) : s[i] = LBrace}) # Cardinality({i \in 1..Len(s) : s[i] = RBrace})
HasControl(s) == \E i \in 1..Len(s) : s[i] \in ControlChars
IssueCount(s) ==
    (IF TooLong(s) THEN 1 ELSE 0) + (IF OpenNeverClosed(s) THEN 1 ELSE 0)
    + (IF Unbalanced(s) THEN 1 ELSE 0) + (IF HasControl(s) THEN 1 ELSE 0)

\* C13: with diagnostics on, analyzeToolCallOutput issues exactly one write of
\* a structured record, whose issue list has one entry per issue found (output
\* over 100,000 characters; an open brace with no close brace after the last
\* one; unequal counts of open and close braces; a control character) and so
\* at most four, and it issues a write of the whole output as raw content
\* exactly when at least one issue was found.
C13_AnomalyRecords ==
    op = "analyze" /\ debug =>
        /\ Cardinality(WritesOf("tool-call-analysis")) = 1
        /\ \A i \in WritesOf("tool-call-analysis") :
              /\ pending[i].w.ext = "json"
              /\ Len(pending[i].w.body.potential_issues) = IssueCount(raw)
              /\ Len(pending[i].w.body.potential_issues) <= 4
        /\ Cardinality(WritesOf("problematic-tool-output")) = (IF IssueCount(raw) > 0 THEN 1 ELSE 0)
        /\ \A i \in WritesOf("problematic-tool-output") :
              pending[i].w.ext = "txt" /\ pending[i].w.body.content = raw
        /\ Len(pending) = 1 + Cardinality(WritesOf("problematic-tool-output"))

\* C13, witness: an output one character over the limit, with no other issue,
\* was analysed and its raw content is being written.
C13_Witness ==
    /\ op = "analyze" /\ debug
    /\ Len(raw) = 100001 /\ IssueCount(raw) = 1
    /\ Len(pending) = 2

StageNames == [i \in 1..Len(ret.stages) |-> ret.stages[i].stage]
Attempted(name) == \E i \in 1..Len(ret.stages) : ret.stages[i].stage = name
StageRank == [direct |-> 1, patch |-> 2, extract |-> 3, fallback |-> 4]
\* An open brace exists and every close brace, if any, is before it.
OpenAfterEveryClose(s) ==
    \E i \in 1..Len(s) : s[i] = LBrace /\ \A j \in 1..Len(s) : s[j] = RBrace => j < i
\* Both braces exist and a close brace is after every open brace.
CloseAfterEveryOpen(s) ==
    /\ \E i \in 1..Len(s) : s[i] = LBrace
    /\ \E j \in 1..Len(s) : s[j] = RBrace /\ \A i \in 1..Len(s) : s[i] = LBrace => i < j

\* C14: parseToolCallOutput attempts its stages in the order direct, patch,
\* extraction, fallback and returns from the first that succeeds; after a
\* failed direct decode the patch is attempted exactly when an open brace
\* exists and is after the last close brace (or there is none), the extraction
\* exactly when both exist, the last close brace is after the last open brace
\* and the patch did not return, and the fallback exactly when no earlier
\* stage returned.
C14_StageOrder ==
    op = "output" =>
        /\ ret.outcome = "return"
        /\ StageNames[1] = "direct"
        /\ \A i, j \in 1..Len(ret.stages) :
              i < j => StageRank[StageNames[i]] < StageRank[StageNames[j]]
        /\ \A i \in 1..Len(ret.stages) : ret.stages[i].success <=> i = Len(ret.stages)
        /\ Attempted("patch") <=> ~ret.stages[1].success /\ OpenAfterEveryClose(raw)
        /\ Attempted("extract") <=> ~ret.stages[1].success /\ CloseAfterEveryOpen(raw)
        /\ Attempted("fallback") <=>
              \A i \in 1..Len(ret.stages) :
                  ret.stages[i].stage # "fallback" => ~ret.stages[i].success

\* C14, witness: the direct decode failed, the patch was not attempted and the
\* extraction returned.
C14_Witness ==
    /\ DecodeReturned
    /\ StageNames = <<"direct", "extract">>
    /\ ret.stages[2].success

\* The open brace at i is matched: counting up on an open brace and down on a
\* close brace from i on, the depth comes back to zero.
MatchedOpen(s, i) ==
    /\ s[i] = LBrace
    /\ \E j \in (i + 1)..Len(s) :
          Cardinality({k \in i..j : s[k] = LBrace}) = Cardinality({k \in i..j : s[k] = RBrace})
EarliestMatchedOpen(s) ==
    IF \E i \in 1..Len(s) : MatchedOpen(s, i)
    THEN CHOOSE i \in 1..Len(s) : MatchedOpen(s, i) /\ \A k \in 1..(i - 1) : ~MatchedOpen(s, k)
    ELSE 1
LastClose(s) == CHOOSE j \in 0..Len(s) :
    /\ j # 0 => s[j] = RBrace
    /\ \A k \in (j + 1)..Len(s) : s[k] # RBrace

\* C15: the candidate of the extraction stage starts at the earliest open
\* brace whose depth returns to zero and runs through the last close brace;
\* the stage succeeds only if the candidate decodes to an object that has both
\* the output and the metadata key.
C15_EarliestMatchedCandidate ==
    op = "output" =>
        \A i \in 1..Len(ret.stages) :
            ret.stages[i].stage = "extract" =>
                /\ ret.stages[i].candidate =
                      SubSeq(raw, EarliestMatchedOpen(raw), LastClose(raw))
                /\ ret.stages[i].success =>
                      /\ ~JsonParse(ret.stages[i].candidate).throws
                      /\ JsonParse(ret.stages[i].candidate).v.t = "obj"
                      /\ HasProp(JsonParse(ret.stages[i].candidate).v.kids, Key_output)
                      /\ HasProp(JsonParse(ret.stages[i].candidate).v.kids, Key_metadata)

\* The parse-attempt records the call handed to the recorder, oldest first, and
\* the decoding stages it entered.
IsAttemptRecord(p) == p.w.body.kind = "parse-attempt"
AttemptRecords == SelectSeq(pending, IsAttemptRecord)
IsDecodingStage(st) == st.stage # "fallback"
DecodingStages == SelectSeq(ret.stages, IsDecodingStage)

\* C16: with diagnostics on, every stage parseToolCallOutput attempts reports
\* exactly one parse-attempt record, with the candidate text the stage examined
\* and with success true exactly when the stage returned the result, the error
\* being given when it failed; a call that ends in the fallback reports no
\* record with success true.
C16_OneRecordPerStage ==
    op = "output" /\ debug =>
        /\ Len(AttemptRecords) = Len(DecodingStages)
        /\ \A i \in 1..Len(AttemptRecords) :
              i <= Len(DecodingStages) =>
                  /\ AttemptRecords[i].w.body.jsonSample.start = DecodingStages[i].candidate
                  /\ AttemptRecords[i].w.body.success = DecodingStages[i].success
                  /\ AttemptRecords[i].w.body.error = ~DecodingStages[i].success
        /\ LastStage.stage = "fallback" =>
              \A i \in 1..Len(AttemptRecords) : ~AttemptRecords[i].w.body.success

C17_FireAndForget ==
    [][/\ (calls' = calls + 1 /\ op' = "output") =>
            /\ ret'.outcome = "return"
            /\ store' = store
            /\ Len(pending') >= Len(pending)
            /\ (ret'.stages[Len(ret'.stages)].stage = "fallback" =>
                    Len(pending') > Len(pending))
       /\ (exited' /\ ~exited) => (ret' = ret /\ store' = store /\ pending' = <<>>)
       /\ exited => (ret' = ret /\ store' = store /\ console' = console)]_vars

\* C17, witness: the call returned the fallback result, the process exited
\* before any of its writes ran, and no record of the failure exists.
C17_Witness ==
    /\ exited /\ DecodeReturned
    /\ LastStage.stage = "fallback"
    /\ ret.value.output = JsStr(<<MsgGeneric>>)
    /\ store = <<>> /\ pending = <<>>
    /\ CountLines(SuccessLines \cup FailureLines) = 0

DecoderCategories ==
    {[dir |-> "debug-logs", prefix |-> "json-parse-success", ext |-> "json"],
     [dir |-> "debug-logs", prefix |-> "json-parse-error", ext |-> "json"],
     [dir |-> "debug-logs", prefix |-> "failed-json-raw", ext |-> "txt"],
     [dir |-> "logs", prefix |-> "json-parse-error", ext |-> "log"]}
CategoryOf(k) == [dir |-> k.dir, prefix |-> k.prefix, ext |-> k.ext]

\* C18: a stored record is named by its category and the timestamp read when
\* its write ran, and by nothing else: a write that runs stores under the clock
\* of that moment, so the records stored are at most one per category and
\* tick, and never more than the writes that succeeded.
C18_TargetCollisions ==
    [][/\ \A k \in DOMAIN store' :
            /\ DOMAIN k = {"dir", "prefix", "ext", "stamp"}
            /\ CategoryOf(k) \in DecoderCategories
            /\ k.stamp \in 0..now'
       /\ \A k \in DOMAIN store' \ DOMAIN store : k.stamp = now
       /\ \A k \in DOMAIN store' \cap DOMAIN store :
            store'[k] # store[k] => k.stamp = now
       /\ Cardinality(DOMAIN store') <= Cardinality(DecoderCategories) * (now' + 1)
       /\ Cardinality(DOMAIN store') <= CountLines(SuccessLines)']_vars

\* C18, witness: every write of the call ran and succeeded, one of them in the
\* second tick, and fewer records are stored than were written: two writes of
\* one category ran in the same tick and the later one replaced the earlier.
C18_Witness ==
    /\ DecodeReturned /\ debug
    /\ pending = <<>> /\ failures = 0
    /\ CountLines(SuccessLines) > Cardinality(DOMAIN store)
    /\ \E k \in DOMAIN store : k.stamp = 1

Answered(c) == callers[c].state = "done" /\ callers[c].awaits # 0
AtMostOneFetch ==
    /\ Len(fetched) <= 1
    /\ modelsPromise = Len(fetched)
FailedFetchCached ==
    \A i \in 1..Len(fetched) :
        fetched[i].response \in {"no-key", "error", "empty"} =>
            fetched[i].state = "fulfilled" /\ fetched[i].value = RECOMMENDED_MODELS

\* C19, as stated: fetchModels is started at most once, every call that asks
\* for the list, made while the fetch is under way or after it, resumes with
\* the result of that one fetch, and a fetch that failed or listed nothing is
\* cached as the recommended list.
C19_SingleFetchShared ==
    /\ AtMostOneFetch
    /\ FailedFetchCached
    /\ \A c \in 1..Len(callers) :
            Answered(c) =>
                /\ fetched[callers[c].awaits].state = "fulfilled"
                /\ callers[c].list = fetched[callers[c].awaits].value

\* C19, amended: fetchModels is started at most once and a fetch that failed
\* or listed nothing is cached as the recommended list; every getAvailableModels
\* call resumes with the result of that one fetch, and so does an
\* isModelSupportedForResponses call unless its timer fired first, in which
\* case it has the empty list and answers true whatever the fetch brings.
C19_SingleFetchCached ==
    /\ AtMostOneFetch
    /\ FailedFetchCached
    /\ \A c \in 1..Len(callers) :
            Answered(c) =>
                /\ callers[c].awaits = 1
                /\ callers[c].timedOut => /\ callers[c].fn = "isModelSupportedForResponses"
                                          /\ callers[c].list = <<>>
                                          /\ callers[c].answer
                /\ ~callers[c].timedOut => /\ fetched[1].state = "fulfilled"
                                           /\ callers[c].list = fetched[1].value

\* C19, witness: the one fetch failed; a getAvailableModels call made while it
\* was under way and one made after it both have the recommended list, and an
\* isModelSupportedForResponses call whose timer fired has the empty list.
C19_Witness ==
    /\ Len(fetched) = 1 /\ fetched[1].response = "error"
    /\ \E c1, c2, c3 \in 1..Len(callers) :
            /\ callers[c1].fn = "getAvailableModels" /\ callers[c1].state = "done"
            /\ ~callers[c1].cached /\ callers[c1].list = RECOMMENDED_MODELS
            /\ callers[c2].fn = "getAvailableModels" /\ callers[c2].state = "done"
            /\ callers[c2].cached /\ callers[c2].list = RECOMMENDED_MODELS
            /\ callers[c3].timedOut /\ callers[c3].list = <<>>

\* The last open brace of s, 0 if it has none.
LastOpen(s) == CHOOSE i \in 0..Len(s) :
    /\ i # 0 => s[i] = LBrace
    /\ \A k \in (i + 1)..Len(s) : s[k] # LBrace

C22_PatchFailedIsTruncation ==
    op = "output" =>
        /\ \A i \in 1..Len(ret.stages) :
                (ret.stages[i].stage = "patch" /\ ~ret.stages[i].success) =>
                    /\ Len(raw) > 0 /\ raw[Len(raw)] # RBrace
                    /\ \E k \in 1..Len(raw) : raw[k] = LBrace
                    /\ ret.outcome = "return"
                    /\ LastStage.stage = "fallback"
                    /\ ret.value.output = JsStr(<<MsgTruncated>>)
        /\ (ret.outcome = "return" /\ LastStage.stage = "fallback"
              /\ ret.value.output = JsStr(<<MsgGeneric>>)) => ~Attempted("patch")

\* C22, witness: the patched text decoded, building the result raised, the
\* patch stage failed and the call returned the truncation message.
C22_Witness ==
    /\ DecodeReturned
    /\ Attempted("patch") /\ ~Attempted("extract")
    /\ ~JsonParse(fixedJson(raw)).throws
    /\ LastStage.stage = "fallback"
    /\ ret.value.output = JsStr(<<MsgTruncated>>)

====
